---- MODULE Spec2Model ----
(***************************************************************************)
(* Model of the 3C Plus client library: the authentication client          *)
(* (auth_3cplus.ThreeCAuthClient) and the mailing client                   *)
(* (mailing_3cplus.ThreeCMailingClient) that shares its HTTP session.      *)
(* Every HTTP request is one step; the vendor API answers each request     *)
(* nondeterministically with a transport exception or a status and body.   *)
(***************************************************************************)
EXTENDS Integers, Sequences, FiniteSets, TLC

(* ------------------------------------------------------------------ *)
(* Bounds of the model                                                  *)
(* ------------------------------------------------------------------ *)
\* largest configured max_retries (of either client)
MaxRetries == 2
\* number of uuid4 values that may be generated in one behaviour
MaxUuid == 3
\* number of ids the audit lists may hold together in one behaviour
MaxAuditIds == 3
MaxThreadCalls == 2

(* ------------------------------------------------------------------ *)
(* Python values                                                        *)
(* ------------------------------------------------------------------ *)
None == "None"
PyNone == [t |-> "none", v |-> "None"]
PyStr(s) == [t |-> "str", v |-> s]
PyInt(i) == [t |-> "int", v |-> i]
PyBool(b) == [t |-> "bool", v |-> b]
PyDict(d) == [t |-> "dict", v |-> d]
PyList(l) == [t |-> "list", v |-> l]
\* a str whose characters matter, spelled as the sequence of its characters
PyChars(c) == [t |-> "chars", v |-> c]
EmptyDict == <<>>
Get(d, k) == IF k \in DOMAIN d THEN d[k] ELSE PyNone
\* truth value of a Python object used in a condition
Truthy(x) ==
    CASE x.t = "none" -> FALSE
      [] x.t = "str" -> x.v # ""
      [] x.t = "int" -> x.v # 0
      [] x.t = "bool" -> x.v
      [] x.t = "dict" -> DOMAIN x.v # {}
      [] x.t = "list" -> Len(x.v) > 0
      [] x.t = "chars" -> Len(x.v) > 0
\* truth value of the Optional[str] token field
TokenSet(tok) == tok # None /\ tok # ""

(* ------------------------------------------------------------------ *)
(* The vendor API as seen by requests.Session                           *)
(* ------------------------------------------------------------------ *)
Statuses == {200, 201, 400, 401, 403, 404, 409, 418, 422, 429, 500}
Raised(e) == [exc |-> e, status |-> 0, body |-> EmptyDict]
Answer(s, b) == [exc |-> "none", status |-> s, body |-> b]
TransportErrors == {Raised("Timeout"), Raised("RequestException")}

LoginBodies ==
    { EmptyDict,
      "token" :> PyStr("abc"),
      "api_token" :> PyStr("abc"),
      ("api_token" :> PyStr("xyz")) @@ ("token" :> PyStr("abc")),
      "data" :> PyDict("api_token" :> PyStr("abc")),
      "data" :> PyDict("data" :> PyDict("token" :> PyStr("abc"))),
      "token" :> PyStr("") }
LoginResponses ==
    TransportErrors \cup
    { Answer(s, b) : s \in Statuses \ {200, 201}, b \in {EmptyDict} } \cup
    { Answer(s, b) : s \in {200, 201}, b \in LoginBodies }
PlainResponses ==
    TransportErrors \cup { Answer(s, EmptyDict) : s \in Statuses }
\* the answers of the "me" endpoint: a 200 may carry the user profile
MeResponses ==
    PlainResponses \cup { Answer(200, ("name" :> PyStr("Ana")) @@ ("email" :> PyStr("a@b.c"))) }

(* ------------------------------------------------------------------ *)
(* State                                                                *)
(* ------------------------------------------------------------------ *)
VARIABLES
    token,             \* ThreeCAuthClient._token
    headers,           \* session.headers of the shared requests.Session
    auth_max_retries,  \* ThreeCAuthClient.max_retries
    max_retries,       \* ThreeCMailingClient.max_retries
    own_session,       \* ThreeCMailingClient.session is not the auth client's session
    persist_callback,  \* ThreeCMailingClient.persist_callback is set
    mailing_ids,       \* ThreeCMailingClient.mailing_ids
    campaign_ids,      \* ThreeCMailingClient.campaign_ids
    threads,           \* the calls of two threads that share the auth client
    uuid_next,         \* the next value uuid.uuid4() returns
    pc,                \* "idle", the retry loop a call is in, or "done"
    call,              \* the public call in progress
    log,               \* the HTTP requests issued by that call, in order
    result,            \* what the call returned or raised, once it is over
    used_keys          \* the Idempotency-Key values sent by earlier calls

vars == <<token, headers, auth_max_retries, max_retries, own_session, persist_callback,
          mailing_ids, campaign_ids, threads, uuid_next, pc, call, log, result,
          used_keys>>

\* the headers argument of a request without Idempotency-Key; uuids count from 1
NoKey == 0

Returned(v) == [kind |-> "ok", value |-> v]
Raise(k, msg) == [kind |-> k, value |-> PyStr(msg)]
NoResult == [kind |-> "none", value |-> PyNone]

NewCall(op, key, method, idempotent, paths) ==
    [op |-> op, key |-> key, method |-> method, idempotent |-> idempotent,
     paths |-> paths, path |-> 1, attempt |-> 1, last_exc |-> None, idem |-> NoKey,
     args |-> <<>>, callbacks |-> <<>>]

\* time.sleep was not called; sleeps are counted in hundredths of a second
NoSleep == 0
\* one request as the session sent it, its answer, and the sleep that followed it
Request(method, url, path, attempt, idem, auth, wait, resp) ==
    [method |-> method, url |-> url, path |-> path, attempt |-> attempt,
     idem |-> idem, auth |-> auth, wait |-> wait,
     exc |-> resp.exc, status |-> resp.status, body |-> resp.body]

(* ------------------------------------------------------------------ *)
(* ThreeCAuthClient                                                     *)
(* ------------------------------------------------------------------ *)
Bearer(tok) == "Bearer " \o tok
\* the Authorization header a session sends, None when it has none
Authorization(h) == IF "Authorization" \in DOMAIN h THEN h["Authorization"] ELSE None
\* 2 ** (attempt - 1) seconds
Backoff_doubled(attempt) == 100 * 2^attempt
Backoff(attempt) == 100 * 2^(attempt - 1)
\* random.uniform(0, 0.1): both ends and a value between
Jitter == {0, 5, 10}
\* the 0.1 s added in _request_json
FixedJitter == 10
\* if attempt < self.max_retries
SleepsAfter(attempt, budget) == attempt < budget
\* session.headers.update({"Authorization": f"Bearer {token}"})
SetAuthorization_bare(h, tok) == ("Authorization" :> tok) @@ h
SetAuthorization(h, tok) == ("Authorization" :> Bearer(tok)) @@ h
PopAuthorization(h) == [k \in DOMAIN h \ {"Authorization"} |-> h[k]]

\* os.environ as far as _get_credentials reads it: nothing is set
\* os.environ as login finds it: the four variables, each set or not
EnvUsers == {EmptyDict, "THREEC_USER" :> PyStr("v")}
EnvPasswords == {EmptyDict, "THREEC_PASSWORD" :> PyStr("v")}
EnvCompanyIds == {EmptyDict, "THREEC_COMPANY_ID" :> PyStr("7"), "THREEC_COMPANY_ID" :> PyStr("x")}
EnvDomains == {EmptyDict, "THREEC_COMPANY_DOMAIN" :> PyStr("v")}
Environs ==
    { u @@ p @@ c @@ d : u \in EnvUsers, p \in EnvPasswords, c \in EnvCompanyIds, d \in EnvDomains }
\* env.get(k)
EnvGet(env, k) == IF k \in DOMAIN env THEN env[k] ELSE PyNone
\* Python's  a or b
Or(a, b) == IF Truthy(a) THEN a ELSE b

\* the decimal strings int() is applied to, with their values
DigitStrings == ("7" :> 7) @@ ("12" :> 12)
\* int(x): the integer, or None where int() raises TypeError or ValueError
ParseInt(x) ==
    CASE x.t = "int" -> x
      [] x.t = "bool" -> PyInt(IF x.v THEN 1 ELSE 0)
      [] x.t = "str" /\ x.v \in DOMAIN DigitStrings -> PyInt(DigitStrings[x.v])
      [] OTHER -> PyNone
CredentialValues == {PyNone, PyStr("v")}
CompanyIds == {PyNone, PyInt(0), PyStr("x")}
\* a user argument may also be the empty string
UserValues == CredentialValues \cup {PyStr("")}

_get_credentials_no_domain(user, password, company_id, company_domain, env) ==
    LET u == Or(user, EnvGet(env, "THREEC_USER"))
        p == Or(password, EnvGet(env, "THREEC_PASSWORD"))
        cid_raw == IF company_id.t # "none" THEN company_id ELSE EnvGet(env, "THREEC_COMPANY_ID")
        domain == Or(company_domain, EnvGet(env, "THREEC_COMPANY_DOMAIN"))
        cid_int == IF cid_raw.t # "none" THEN ParseInt(cid_raw) ELSE PyNone
    IN  IF ~(Truthy(u) /\ Truthy(p) /\ cid_int.t # "none")
        THEN Raise("InputInvalid", "Credenciais incompletas")
        ELSE Returned(PyDict(("user" :> u) @@ ("password" :> p)
                             @@ ("company_id" :> cid_int) @@ ("company_domain" :> domain)))
_get_credentials(user, password, company_id, company_domain, env) ==
    LET u == Or(user, EnvGet(env, "THREEC_USER"))
        p == Or(password, EnvGet(env, "THREEC_PASSWORD"))
        cid_raw == IF company_id.t # "none" THEN company_id ELSE EnvGet(env, "THREEC_COMPANY_ID")
        domain == Or(company_domain, EnvGet(env, "THREEC_COMPANY_DOMAIN"))
        cid_int == IF cid_raw.t # "none" THEN ParseInt(cid_raw) ELSE PyNone
    IN  IF ~(Truthy(u) /\ Truthy(p) /\ cid_int.t # "none" /\ Truthy(domain))
        THEN Raise("InputInvalid", "Credenciais incompletas")
        ELSE Returned(PyDict(("user" :> u) @@ ("password" :> p)
                             @@ ("company_id" :> cid_int) @@ ("company_domain" :> domain)))

RECURSIVE _extract_token_swapped(_)
_extract_token_swapped(data) ==
    IF "token" \in DOMAIN data /\ data["token"].t = "str" THEN data["token"].v
    ELSE IF "api_token" \in DOMAIN data /\ data["api_token"].t = "str" THEN data["api_token"].v
    ELSE IF Get(data, "data").t = "dict" THEN _extract_token_swapped(data["data"].v)
    ELSE None
RECURSIVE _extract_token(_)
_extract_token(data) ==
    IF "api_token" \in DOMAIN data /\ data["api_token"].t = "str" THEN data["api_token"].v
    ELSE IF "token" \in DOMAIN data /\ data["token"].t = "str" THEN data["token"].v
    ELSE IF Get(data, "data").t = "dict" THEN _extract_token(data["data"].v)
    ELSE None

is_autenticado == token # None

auth_headers ==
    IF ~TokenSet(token) THEN Raise("Unauthorized", "Usuario nao autenticado.")
    ELSE Returned(PyDict("Authorization" :> PyStr(Bearer(token))))

_handle_login_response_reset(response) ==
    LET keep(r) == [result |-> r, token |-> token, headers |-> headers]
        drop(r) == [result |-> r, token |-> None, headers |-> PopAuthorization(headers)]
        s == response.status
        tok == _extract_token(response.body)
    IN  IF s = 200 THEN
            IF ~TokenSet(tok)
            THEN keep(Raise("ThreeCAuthError", "Token nao encontrado"))
            ELSE [result |-> Returned(PyStr(tok)), token |-> tok,
                  headers |-> SetAuthorization(headers, tok)]
        ELSE IF s \in {400, 422} THEN keep(Raise("InputInvalid", ""))
        ELSE IF s = 401 THEN drop(Raise("InvalidCredentials", "Credenciais invalidas."))
        ELSE IF s = 429 THEN keep(Raise("RateLimitExceeded", "Muitas requisicoes."))
        ELSE IF s >= 500 THEN keep(Raise("ApiUnavailable", "Servico indisponivel"))
        ELSE keep(Raise("ThreeCAuthError", "Erro inesperado ao autenticar"))
_handle_login_response_forbidden(response) ==
    LET keep(r) == [result |-> r, token |-> token, headers |-> headers]
        s == response.status
        tok == _extract_token(response.body)
    IN  IF s = 200 THEN
            IF ~TokenSet(tok)
            THEN keep(Raise("ThreeCAuthError", "Token nao encontrado"))
            ELSE [result |-> Returned(PyStr(tok)), token |-> tok,
                  headers |-> SetAuthorization(headers, tok)]
        ELSE IF s \in {400, 422} THEN keep(Raise("InputInvalid", ""))
        ELSE IF s \in {401, 403} THEN keep(Raise("InvalidCredentials", "Credenciais invalidas."))
        ELSE IF s = 429 THEN keep(Raise("RateLimitExceeded", "Muitas requisicoes."))
        ELSE IF s >= 500 THEN keep(Raise("ApiUnavailable", "Servico indisponivel"))
        ELSE keep(Raise("ThreeCAuthError", "Erro inesperado ao autenticar"))
\* the outcome of _handle_login_response: result and the new token and headers
_handle_login_response(response) ==
    LET keep(r) == [result |-> r, token |-> token, headers |-> headers]
        s == response.status
        tok == _extract_token(response.body)
    IN  IF s = 200 THEN
            IF ~TokenSet(tok)
            THEN keep(Raise("ThreeCAuthError", "Token nao encontrado"))
            ELSE [result |-> Returned(PyStr(tok)), token |-> tok,
                  headers |-> SetAuthorization(headers, tok)]
        ELSE IF s \in {400, 422} THEN keep(Raise("InputInvalid", ""))
        ELSE IF s = 401 THEN keep(Raise("InvalidCredentials", "Credenciais invalidas."))
        ELSE IF s = 429 THEN keep(Raise("RateLimitExceeded", "Muitas requisicoes."))
        ELSE IF s >= 500 THEN keep(Raise("ApiUnavailable", "Servico indisponivel"))
        ELSE keep(Raise("ThreeCAuthError", "Erro inesperado ao autenticar"))

\* an attempt of login that neither breaks nor returns: exception or HTTP 5xx
LoginTransient(response) == response.exc # "none" \/ response.status >= 500
LoginRange_single(attempt, budget) == FALSE
LoginRange_extra(attempt, budget) == attempt <= budget
\* range(1, max_retries + 1) of login holds another attempt after this one
LoginRange(attempt, budget) == attempt + 1 <= budget

\* login up to the first request: credentials, then the retry loop is entered
LoginStart(user, password, company_id, company_domain, env) ==
    /\ pc = "idle"
    /\ LET creds == _get_credentials(user, password, company_id, company_domain, env) IN
        /\ call' = [NewCall("login", "authenticate", "POST", FALSE, <<<<"authenticate">>>>)
                    EXCEPT !.args = [user |-> user, password |-> password,
                                     company_id |-> company_id,
                                     company_domain |-> company_domain, env |-> env]]
        /\ log' = <<>>
        /\ IF creds.kind # "ok"
           THEN /\ pc' = "done"
                /\ result' = creds
           ELSE /\ pc' = "login"
                /\ result' = NoResult
    /\ UNCHANGED <<token, headers, auth_max_retries, max_retries, own_session, persist_callback, mailing_ids, campaign_ids, threads, uuid_next, used_keys>>

\* one iteration of the for loop of login, and what follows the loop when it ends
LoginAttempt(response, jitter) ==
    /\ pc = "login"
    /\ log' = Append(log, Request("POST", <<"authenticate">>, 1, call.attempt, NoKey,
                                  Authorization(headers),
                                  IF LoginTransient(response) /\ SleepsAfter(call.attempt, auth_max_retries)
                                  THEN Backoff(call.attempt) + jitter ELSE NoSleep,
                                  response))
    /\ IF LoginTransient(response)
       THEN /\ UNCHANGED <<token, headers>>
            /\ LET exc == IF response.exc # "none" THEN response.exc ELSE "ApiUnavailable" IN
               IF LoginRange(call.attempt, auth_max_retries)
               THEN /\ call' = [call EXCEPT !.attempt = @ + 1, !.last_exc = exc]
                    /\ pc' = "login"
                    /\ result' = result
               ELSE /\ call' = [call EXCEPT !.last_exc = exc]
                    /\ pc' = "done"
                    /\ result' = Raise("ApiUnavailable", "Servico indisponivel")
       ELSE LET out == _handle_login_response(response) IN
            /\ token' = out.token
            /\ headers' = out.headers
            /\ result' = out.result
            /\ call' = call
            /\ pc' = "done"
    /\ UNCHANGED <<auth_max_retries, max_retries, own_session, persist_callback, mailing_ids, campaign_ids, threads, uuid_next, used_keys>>

verificar_sessao_result_forbidden(response) ==
    LET s == response.status IN
    IF response.exc # "none" THEN Raise(response.exc, "")
    ELSE IF s = 200 THEN Returned(PyDict(response.body))
    ELSE IF s \in {401, 403} THEN Raise("TokenExpired", "Token expirado ou invalido.")
    ELSE IF s = 429 THEN Raise("RateLimitExceeded", "Muitas requisicoes.")
    ELSE IF s >= 500 THEN Raise("ApiUnavailable", "Servico indisponivel")
    ELSE Raise("ThreeCAuthError", "Erro inesperado ao verificar sessao")
\* a transport exception of session.get is not caught: it reaches the caller
verificar_sessao_result(response) ==
    LET s == response.status IN
    IF response.exc # "none" THEN Raise(response.exc, "")
    ELSE IF s = 200 THEN Returned(PyDict(response.body))
    ELSE IF s = 401 THEN Raise("TokenExpired", "Token expirado ou invalido.")
    ELSE IF s = 403 THEN Raise("Unauthorized", "Acesso negado.")
    ELSE IF s = 429 THEN Raise("RateLimitExceeded", "Muitas requisicoes.")
    ELSE IF s >= 500 THEN Raise("ApiUnavailable", "Servico indisponivel")
    ELSE Raise("ThreeCAuthError", "Erro inesperado ao verificar sessao")

VerificarSessao(response) ==
    /\ pc = "idle"
    /\ call' = NewCall("verificar_sessao", "me", "GET", FALSE, <<>>)
    /\ IF ~TokenSet(token)
       THEN /\ log' = <<>>
            /\ result' = Raise("Unauthorized", "Usuario nao autenticado.")
       ELSE /\ log' = <<Request("GET", <<"me">>, 1, 1, NoKey, Authorization(headers), NoSleep, response)>>
            /\ result' = verificar_sessao_result(response)
    /\ pc' = "done"
    /\ UNCHANGED <<token, headers, auth_max_retries, max_retries, own_session, persist_callback, mailing_ids, campaign_ids, threads, uuid_next, used_keys>>

logout_result(response) ==
    LET s == response.status IN
    IF response.exc # "none" THEN Raise(response.exc, "")
    ELSE IF s = 200 THEN Returned(PyNone)
    ELSE IF s \in {401, 403} THEN Raise("TokenExpired", "Sessao expirada.")
    ELSE IF s = 429 THEN Raise("RateLimitExceeded", "Muitas requisicoes.")
    ELSE IF s >= 500 THEN Raise("ApiUnavailable", "Servico indisponivel")
    ELSE Raise("ThreeCAuthError", "Erro inesperado ao realizar logout")

logout_clears_throttled(response) ==
    response.exc = "none" /\ response.status \in {200, 401, 403, 429}
logout_clears_expired_only(response) == response.exc = "none" /\ response.status \in {401, 403}
\* the statuses on which logout drops the token and the Authorization header
logout_clears(response) == response.exc = "none" /\ response.status \in {200, 401, 403}

Logout(response) ==
    /\ pc = "idle"
    /\ call' = NewCall("logout", "logout", "GET", FALSE, <<>>)
    /\ IF ~TokenSet(token)
       THEN /\ log' = <<>>
            /\ result' = Raise("Unauthorized", "Usuario nao autenticado.")
            /\ UNCHANGED <<token, headers>>
       ELSE /\ log' = <<Request("GET", <<"logout">>, 1, 1, NoKey, Authorization(headers), NoSleep, response)>>
            /\ result' = logout_result(response)
            /\ IF logout_clears(response)
               THEN /\ token' = None
                    /\ headers' = PopAuthorization(headers)
               ELSE UNCHANGED <<token, headers>>
    /\ pc' = "done"
    /\ UNCHANGED <<auth_max_retries, max_retries, own_session, persist_callback, mailing_ids, campaign_ids, threads, uuid_next, used_keys>>

AuthHeaders ==
    /\ pc = "idle"
    /\ call' = NewCall("auth_headers", "", "", FALSE, <<>>)
    /\ log' = <<>>
    /\ result' = auth_headers
    /\ pc' = "done"
    /\ UNCHANGED <<token, headers, auth_max_retries, max_retries, own_session, persist_callback, mailing_ids, campaign_ids, threads, uuid_next, used_keys>>

(* ------------------------------------------------------------------ *)
(* ThreeCMailingClient                                                  *)
(* ------------------------------------------------------------------ *)
\* a path is the sequence of its words and separators
DEFAULT_ENDPOINTS ==
    [listar_campanhas |-> << <<"campaign", " ", "lists">>, <<"campaign", "/", "lists">> >>,
     criar_container |-> << <<"create", " ", "malling", " ", "list">>,
                            <<"create", " ", "mailing", " ", "list">> >>,
     enviar_json |-> << <<"create", " ", "mailing", " ", "json">> >>,
     enviar_array |-> << <<"create", " ", "mailing", " ", "by", " ", "array">> >>,
     enviar_csv |-> << <<"malling", " ", "list", " ", "csv">>,
                       <<"mailing", "/", "list", "/", "csv">> >>,
     ajustar_peso |-> << <<"Update", " ", "weight">> >>]

\* the registry of a client built without endpoint overrides
endpoints == DEFAULT_ENDPOINTS

RECURSIVE lstrip(_)
lstrip(path) ==
    IF path # <<>> /\ Head(path) = "/" THEN lstrip(Tail(path)) ELSE path

\* the clean candidate paths of an operation, or <<>> when none is configured
_resolve_endpoint(key) ==
    IF key \in DOMAIN endpoints
    THEN [i \in 1..Len(endpoints[key]) |-> lstrip(endpoints[key][i])]
    ELSE <<>>

\* f"{base_url}/{path}".replace(" ", "/"), without the base url
Url(path) == [i \in 1..Len(path) |-> IF path[i] = " " THEN "/" ELSE path[i]]

IsTransient_throttled(response) ==
    response.exc # "none" \/ response.status >= 500 \/ response.status = 429
\* an attempt that neither returns nor breaks: exception or HTTP 5xx
IsTransient(response) == response.exc # "none" \/ response.status >= 500
\* the exception an attempt leaves in last_exc
RecordedExc_reset(response, last_exc) ==
    IF response.exc # "none" THEN response.exc
    ELSE IF response.status = 404 THEN None
    ELSE IF response.status >= 500 THEN "ApiUnavailable"
    ELSE last_exc
RecordedExc(response, last_exc) ==
    IF response.exc # "none" THEN response.exc
    ELSE IF response.status = 404 THEN last_exc
    ELSE IF response.status >= 500 THEN "ApiUnavailable"
    ELSE last_exc
MoreAttempts_extra(attempt, budget) == attempt <= budget
\* range(1, max_retries + 1) of _request_json holds another attempt after this one
MoreAttempts(attempt, budget) == attempt + 1 <= budget
FirstAttempt_carried(attempt) == attempt
\* the attempt number the next candidate path starts with
FirstAttempt(attempt) == 1

_request_json_exhausted_unavailable(last_exc, endpoint_key) ==
    IF last_exc = "Timeout" THEN Raise("ApiUnavailable", "Tempo de requisicao excedido")
    ELSE Raise("ApiUnavailable", "Erro de rede")
\* what _request_json raises once the loop over the paths is over
_request_json_exhausted(last_exc, endpoint_key) ==
    IF last_exc = "Timeout" THEN Raise("ApiUnavailable", "Tempo de requisicao excedido")
    ELSE IF last_exc = "RequestException" THEN Raise("ApiUnavailable", "Erro de rede")
    ELSE Raise("CampaignNotFound", endpoint_key)

_handle_response_forbidden(response, endpoint_key) ==
    LET s == response.status IN
    IF s \in {200, 201} THEN Returned(PyDict(response.body))
    ELSE IF s \in {400, 422} THEN Raise("InputInvalid", "Payload invalido")
    ELSE IF s = 401 THEN Raise("Unauthorized", "Nao autorizado")
    ELSE IF s = 404 THEN Raise("CampaignNotFound", endpoint_key)
    ELSE IF s = 409 THEN Raise("UploadFailed", "Dados duplicados")
    ELSE IF s = 429 THEN Raise("RateLimitExceeded", "Muitas requisicoes")
    ELSE IF s >= 500 THEN Raise("ApiUnavailable", "Servico indisponivel")
    ELSE Raise("ThreeCMailingError", endpoint_key)
_handle_response(response, endpoint_key) ==
    LET s == response.status IN
    IF s \in {200, 201} THEN Returned(PyDict(response.body))
    ELSE IF s \in {400, 422} THEN Raise("InputInvalid", "Payload invalido")
    ELSE IF s \in {401, 403} THEN Raise("Unauthorized", "Nao autorizado")
    ELSE IF s = 404 THEN Raise("CampaignNotFound", endpoint_key)
    ELSE IF s = 409 THEN Raise("UploadFailed", "Dados duplicados")
    ELSE IF s = 429 THEN Raise("RateLimitExceeded", "Muitas requisicoes")
    ELSE IF s >= 500 THEN Raise("ApiUnavailable", "Servico indisponivel")
    ELSE Raise("ThreeCMailingError", endpoint_key)

Missing == [t |-> "missing", v |-> "missing"]
RECURSIVE Walk(_, _)
\* target[part] for each part, Missing on KeyError or TypeError
Walk(target, parts) ==
    IF parts = <<>> THEN target
    ELSE IF target.t = "dict" /\ Head(parts) \in DOMAIN target.v
         THEN Walk(target.v[Head(parts)], Tail(parts))
         ELSE Missing

\* the one-character string U+00B2: a digit for isdigit, no literal for int()
SuperscriptTwo == "sup2"
\* str.isdigit()
isdigit(x) == x \in DOMAIN DigitStrings \cup {SuperscriptTwo}
IdKeys == << <<"data", "mailing_id">>, <<"data", "id">>, <<"mailing_id">>, <<"id">> >>
RECURSIVE _extract_id(_, _)
_extract_id(data, keys) ==
    IF keys = <<>> THEN Raise("CreateMailingFailed", "ID do mailing nao encontrado")
    ELSE LET target == Walk(data, Head(keys)) IN
         IF target.t \in {"int", "bool"} THEN Returned(target)
         ELSE IF target.t = "str" /\ isdigit(target.v)
              THEN IF ParseInt(target).t = "none"
                   THEN Raise("ValueError", "invalid literal for int()")
                   ELSE Returned(ParseInt(target))
              ELSE _extract_id(data, Tail(keys))

criar_mailing_container_result_plain(handled, args) ==
    IF handled.kind # "ok" THEN handled
    ELSE LET mailing_id == _extract_id(handled.value, IdKeys) IN
         IF mailing_id.kind # "ok" THEN mailing_id
         ELSE Returned(PyDict(("mailing_id" :> mailing_id.value)
                              @@ ("campaign_id" :> args.campanha_id)))
\* what each public operation makes of the outcome of its _handle_response
criar_mailing_container_result(handled, args) ==
    IF handled.kind = "UploadFailed" THEN Raise("CreateMailingFailed", "Conflito ao criar mailing")
    ELSE IF handled.kind # "ok" THEN handled
    ELSE LET mailing_id == _extract_id(handled.value, IdKeys) IN
         IF mailing_id.kind # "ok" THEN mailing_id
         ELSE Returned(PyDict(("mailing_id" :> mailing_id.value)
                              @@ ("campaign_id" :> args.campanha_id)))

ajustar_peso_mailing_result_strict(handled) ==
    IF handled.kind # "ok" THEN handled
    ELSE IF ~Truthy(IF "success" \in DOMAIN handled.value.v
                    THEN handled.value.v["success"] ELSE PyNone)
         THEN Raise("WeightUpdateFailed", "Falha ao atualizar peso")
         ELSE Returned(PyNone)
ajustar_peso_mailing_result(handled) ==
    IF handled.kind # "ok" THEN handled
    ELSE IF ~Truthy(IF "success" \in DOMAIN handled.value.v
                    THEN handled.value.v["success"] ELSE PyBool(TRUE))
         THEN Raise("WeightUpdateFailed", "Falha ao atualizar peso")
         ELSE Returned(PyNone)

\* str.lower() on the letters that occur
LowerCase ==
    ("C" :> "c") @@ ("D" :> "d") @@ ("A" :> "a") @@ ("M" :> "m") @@ ("P" :> "p")
    @@ ("N" :> "n") @@ ("O" :> "o")
\* str(x) of a name: a string is itself, None reads "None"
str(x) == IF x.t = "none" THEN <<"N", "o", "n", "e">> ELSE x.v
lower(text) ==
    [i \in 1..Len(text) |-> IF text[i] \in DOMAIN LowerCase THEN LowerCase[text[i]] ELSE text[i]]
\* sub in str
Contains(sub, text) ==
    \E i \in 0..(Len(text) - Len(sub)) : SubSeq(text, i + 1, i + Len(sub)) = sub

\* the campaigns that pass the loop body of listar_campanhas
CampaignKept(camp, filtro, somente_ativas) ==
    /\ ~(Truthy(filtro) /\ ~Contains(lower(filtro.v),
                                     lower(str(IF "name" \in DOMAIN camp.v THEN camp.v["name"]
                                               ELSE PyChars(<<>>)))))
    /\ ~(somente_ativas /\ ~Truthy(IF "active" \in DOMAIN camp.v THEN camp.v["active"] ELSE PyBool(TRUE)))
RECURSIVE SelectCampaigns(_, _, _)
SelectCampaigns(campanhas, filtro, somente_ativas) ==
    IF campanhas = <<>> THEN <<>>
    ELSE (IF CampaignKept(Head(campanhas), filtro, somente_ativas) THEN <<Head(campanhas)>> ELSE <<>>)
         \o SelectCampaigns(Tail(campanhas), filtro, somente_ativas)

listar_campanhas_result(handled, args) ==
    IF handled.kind # "ok" THEN handled
    ELSE LET data == handled.value.v
             campanhas == Or(Or(Get(data, "data"), Get(data, "campaigns")), PyList(<<>>))
         IN  Returned(PyList(SelectCampaigns(campanhas.v, args.filtro, args.somente_ativas)))

OperationResult(op, handled, args) ==
    CASE op = "criar_mailing_container" -> criar_mailing_container_result(handled, args)
      [] op = "listar_campanhas" -> listar_campanhas_result(handled, args)
      [] op = "ajustar_peso_mailing" -> ajustar_peso_mailing_result(handled)
      [] OTHER -> handled

Operations ==
    [listar_campanhas |-> [key |-> "listar_campanhas", method |-> "GET", idempotent |-> FALSE],
     criar_mailing_container |-> [key |-> "criar_container", method |-> "POST", idempotent |-> TRUE],
     enviar_mailing_json |-> [key |-> "enviar_json", method |-> "POST", idempotent |-> TRUE],
     enviar_mailing_array |-> [key |-> "enviar_array", method |-> "POST", idempotent |-> TRUE],
     enviar_mailing_csv |-> [key |-> "enviar_csv", method |-> "POST", idempotent |-> TRUE],
     ajustar_peso_mailing |-> [key |-> "ajustar_peso", method |-> "PUT", idempotent |-> TRUE]]
WriteOps == {op \in DOMAIN Operations : Operations[op].idempotent}

\* the arguments a call is made with, as far as they decide its course
ArgsOf(op) ==
    CASE op = "criar_mailing_container" -> {[campanha_id |-> PyInt(1)]}
      [] op = "enviar_mailing_json" -> {[phones |-> l] : l \in {<<1>>, <<1, 21>>, <<21, 1>>, <<20, 20>>}}
      [] op = "enviar_mailing_csv" -> {[exists |-> b] : b \in BOOLEAN}
      [] op = "listar_campanhas" ->
            {[filtro |-> PyNone, somente_ativas |-> TRUE],
             [filtro |-> PyChars(<<"C", "a", "m", "p">>), somente_ativas |-> TRUE],
             [filtro |-> PyChars(<<"N", "O", "N">>), somente_ativas |-> TRUE],
             [filtro |-> PyNone, somente_ativas |-> FALSE]}
      [] OTHER -> {<<>>}

LocalCheck_first(op, args) ==
    IF op = "enviar_mailing_json" /\ args.phones[1] > 20
    THEN Raise("ValueError", "Cada contato pode conter no maximo 20 telefones")
    ELSE IF op = "enviar_mailing_csv" /\ ~args.exists
    THEN Raise("UploadFailed", "Arquivo CSV nao encontrado")
    ELSE Returned(PyNone)
\* what the operation raises before _request_json is called, if anything
LocalCheck(op, args) ==
    IF op = "enviar_mailing_json" /\ \E i \in 1..Len(args.phones) : args.phones[i] > 20
    THEN Raise("ValueError", "Cada contato pode conter no maximo 20 telefones")
    ELSE IF op = "enviar_mailing_csv" /\ ~args.exists
    THEN Raise("UploadFailed", "Arquivo CSV nao encontrado")
    ELSE Returned(PyNone)

CriarBodies ==
    { EmptyDict,
      ("data" :> PyDict("mailing_id" :> PyInt(7))) @@ ("id" :> PyInt(12)),
      "data" :> PyDict(("id" :> PyInt(12)) @@ ("name" :> PyStr("x"))),
      ("mailing_id" :> PyInt(7)) @@ ("id" :> PyInt(12)),
      "id" :> PyStr("12"),
      ("data" :> PyDict("id" :> PyStr("x"))) @@ ("mailing_id" :> PyInt(7)),
      ("data" :> PyStr("x")) @@ ("id" :> PyInt(12)),
      ("data" :> PyDict("id" :> PyBool(TRUE))) @@ ("id" :> PyInt(12)),
      "id" :> PyStr(SuperscriptTwo) }
PesoBodies == { EmptyDict, "success" :> PyBool(TRUE), "success" :> PyBool(FALSE) }
Campaign(id, name, active) ==
    PyDict(("id" :> PyInt(id)) @@ ("name" :> PyChars(name)) @@ ("active" :> PyBool(active)))
ListBodies ==
    { EmptyDict,
      "data" :> PyList(<< PyDict(("id" :> PyInt(4)) @@ ("name" :> PyNone)),
                          PyDict("id" :> PyStr("x")) >>),
      "data" :> PyList(<< Campaign(1, <<"C", "a", "m", "p", "1">>, TRUE),
                          Campaign(2, <<"D", "e", "s", "a", "t", "i", "v", "a", "d", "a">>, FALSE) >>),
      "campaigns" :> PyList(<< PyDict(("id" :> PyInt(3)) @@ ("name" :> PyChars(<<"c", "a", "m", "p">>))) >>) }
BodiesOf(op) ==
    CASE op = "criar_mailing_container" -> CriarBodies
      [] op = "listar_campanhas" -> ListBodies
      [] op = "ajustar_peso_mailing" -> PesoBodies
      [] OTHER -> {EmptyDict}
\* answers that carry no id: nothing is recorded in the audit lists
MailingResponses(op) ==
    TransportErrors \cup
    { Answer(s, EmptyDict) : s \in Statuses \ {200, 201} } \cup
    { Answer(s, b) : s \in {200, 201},
                     b \in IF op = "ajustar_peso_mailing" THEN PesoBodies ELSE {EmptyDict} }
\* answers with mailing ids and campaigns in them
RecordingResponses(op) ==
    TransportErrors \cup
    { Answer(s, EmptyDict) : s \in {401, 404, 409, 500} } \cup
    { Answer(s, b) : s \in {200, 201}, b \in BodiesOf(op) }

\* the headers of the requests to one candidate path: a uuid4 for a write
IdempotencyKey(idempotent, previous) == IF idempotent THEN uuid_next ELSE NoKey
UuidsTaken(idempotent) == IF idempotent THEN 1 ELSE 0

\* a public operation up to the first request of _request_json
MailingStart(op, args) ==
    /\ pc = "idle"
    /\ LET o == Operations[op]
           paths == _resolve_endpoint(o.key)
           check == LocalCheck(op, args)
       IN
        /\ o.idempotent => uuid_next + Len(paths) - 1 <= MaxUuid
        /\ log' = <<>>
        /\ call' = [NewCall(op, o.key, o.method, o.idempotent, paths) EXCEPT
                       !.args = args,
                       !.idem = IF check.kind = "ok" /\ paths # <<>>
                                THEN IdempotencyKey(o.idempotent, NoKey) ELSE NoKey]
        /\ IF check.kind # "ok"
           THEN /\ pc' = "done"
                /\ result' = check
                /\ UNCHANGED uuid_next
           ELSE IF paths = <<>>
           THEN /\ pc' = "done"
                /\ result' = Raise("ThreeCMailingError", o.key)
                /\ UNCHANGED uuid_next
           ELSE /\ pc' = "request"
                /\ result' = NoResult
                /\ uuid_next' = uuid_next + UuidsTaken(o.idempotent)
    /\ UNCHANGED <<token, headers, auth_max_retries, max_retries, own_session, persist_callback, mailing_ids, campaign_ids, threads, used_keys>>

\* the headers of a requests.Session the auth client never touched
OwnHeaders == EmptyDict
\* self.session.headers of the mailing client
SessionHeaders == IF own_session THEN OwnHeaders ELSE headers
\* self.mailing_ids.append(mailing_id) of criar_mailing_container
RecordedMailingIds_unchecked(op, out) ==
    IF op # "criar_mailing_container" THEN <<>>
    ELSE IF out.kind = "ok" THEN <<out.value.v["mailing_id"]>> ELSE <<PyNone>>
RecordedMailingIds(op, out) ==
    IF op = "criar_mailing_container" /\ out.kind = "ok"
    THEN <<out.value.v["mailing_id"]>> ELSE <<>>
RECURSIVE IntIds(_)
\* the ids listar_campanhas appends: isinstance(cid, int) of each campaign kept
IntIds(campanhas) ==
    IF campanhas = <<>> THEN <<>>
    ELSE (IF Get(Head(campanhas).v, "id").t \in {"int", "bool"}
          THEN <<Head(campanhas).v["id"]>> ELSE <<>>) \o IntIds(Tail(campanhas))
RecordedCampaignIds(op, out) ==
    IF op = "listar_campanhas" /\ out.kind = "ok" THEN IntIds(out.value.v) ELSE <<>>
\* what the persistence callback does when it is called
CallbackOutcomes == {"returns", "raises"}
CallbackCalls_on_failure(op, out, callback) ==
    IF op = "criar_mailing_container" /\ persist_callback
    THEN <<[arg |-> out.value, outcome |-> callback]>> ELSE <<>>
\* the calls of persist_callback made by criar_mailing_container
CallbackCalls(op, out, callback) ==
    IF op = "criar_mailing_container" /\ out.kind = "ok" /\ persist_callback
    THEN <<[arg |-> out.value, outcome |-> callback]>> ELSE <<>>
SessionToken_expiring(response) ==
    IF response.exc = "none" /\ response.status \in {401, 403} THEN None ELSE token
\* auth_client._token after an answer: no mailing code assigns it
SessionToken(response) == token
\* one session.request of _request_json and everything up to the next one
RequestAttempt(response, callback) ==
    /\ pc = "request"
    /\ log' = Append(log, Request(call.method, Url(call.paths[call.path]), call.path,
                                  call.attempt, call.idem, Authorization(SessionHeaders),
                                  IF IsTransient(response) /\ SleepsAfter(call.attempt, max_retries)
                                  THEN Backoff(call.attempt) + FixedJitter ELSE NoSleep,
                                  response))
    /\ LET last_exc == RecordedExc(response, call.last_exc)
           pathOver == response.status = 404 \/ ~MoreAttempts(call.attempt, max_retries)
       IN
       IF ~IsTransient(response) /\ response.status # 404
       THEN \* return response; the operation works on what _handle_response gives
            LET out == OperationResult(call.op, _handle_response(response, call.key), call.args) IN
            /\ pc' = "done"
            /\ result' = out
            /\ mailing_ids' = mailing_ids \o RecordedMailingIds(call.op, out)
            /\ campaign_ids' = campaign_ids \o RecordedCampaignIds(call.op, out)
            /\ Len(mailing_ids') + Len(campaign_ids') <= MaxAuditIds
            /\ call' = [call EXCEPT !.callbacks = CallbackCalls(call.op, out, callback)]
            /\ UNCHANGED uuid_next
       ELSE IF ~pathOver
       THEN \* sleep, next attempt on the same path
            /\ pc' = "request"
            /\ call' = [call EXCEPT !.attempt = @ + 1, !.last_exc = last_exc]
            /\ result' = result
            /\ UNCHANGED <<uuid_next, mailing_ids, campaign_ids>>
       ELSE IF call.path < Len(call.paths)
       THEN \* next candidate path
            /\ pc' = "request"
            /\ call' = [call EXCEPT !.path = @ + 1, !.attempt = FirstAttempt(call.attempt),
                                    !.last_exc = last_exc,
                                    !.idem = IdempotencyKey(call.idempotent, call.idem)]
            /\ result' = result
            /\ uuid_next' = uuid_next + UuidsTaken(call.idempotent)
            /\ UNCHANGED <<mailing_ids, campaign_ids>>
       ELSE \* every path was tried
            /\ pc' = "done"
            /\ call' = [call EXCEPT !.last_exc = last_exc]
            /\ result' = OperationResult(call.op, _request_json_exhausted(last_exc, call.key), call.args)
            /\ UNCHANGED <<uuid_next, mailing_ids, campaign_ids>>
    /\ token' = SessionToken(response)
    /\ UNCHANGED <<headers, auth_max_retries, max_retries, own_session, persist_callback, threads, used_keys>>

\* the caller takes the result of the finished call; the client is idle again
NoCall == NewCall("none", "", "", FALSE, <<>>)
Return ==
    /\ pc = "done"
    /\ pc' = "idle"
    /\ call' = NoCall
    /\ log' = <<>>
    /\ result' = NoResult
    /\ used_keys' = used_keys \cup {log[i].idem : i \in {j \in 1..Len(log) : log[j].idem # NoKey}}
    /\ UNCHANGED <<token, headers, auth_max_retries, max_retries, own_session, persist_callback, mailing_ids, campaign_ids, threads, uuid_next>>

(* ------------------------------------------------------------------ *)
(* Specification                                                        *)
(* ------------------------------------------------------------------ *)
Threads == {"t1", "t2"}
IdleThread == [pc |-> "idle", op |-> "none", attempt |-> 1, value |-> None, todo |-> <<>>,
               calls |-> 0]
\* no thread has called anything
NoThreads == [of |-> [t \in Threads |-> IdleThread], overlapped |-> FALSE]
Init ==
    /\ token = None
    /\ headers = ("Accept" :> "application/json")
    /\ auth_max_retries \in 1..MaxRetries
    /\ max_retries \in 1..MaxRetries
    \* the budgets belong to two objects and no code reads both: one of them
    \* ranges while the other is 1
    /\ auth_max_retries = 1 \/ max_retries = 1
    /\ own_session = FALSE
    /\ persist_callback = FALSE
    /\ mailing_ids = <<>>
    /\ campaign_ids = <<>>
    /\ threads = NoThreads
    /\ uuid_next = 1
    /\ pc = "idle"
    /\ call = NoCall
    /\ log = <<>>
    /\ result = NoResult
    /\ used_keys = {}

Next ==
    \/ \E u \in CredentialValues, p \in CredentialValues, c \in CompanyIds, d \in CredentialValues :
           LoginStart(u, p, c, d, EmptyDict)
    \/ \E r \in LoginResponses, j \in Jitter : LoginAttempt(r, j)
    \/ \E r \in MeResponses : VerificarSessao(r)
    \/ \E r \in PlainResponses : Logout(r)
    \/ AuthHeaders
    \/ \E op \in DOMAIN Operations : \E args \in ArgsOf(op) : MailingStart(op, args)
    \/ \E r \in MailingResponses(call.op) : RequestAttempt(r, "returns")
    \/ Return

Spec == Init /\ [][Next]_vars

\* login alone, with every combination of arguments and environment
NextCredentials ==
    \/ \E u \in UserValues, p \in CredentialValues, c \in CompanyIds, d \in CredentialValues :
           \E env \in Environs : LoginStart(u, p, c, d, env)
    \/ \E r \in LoginResponses, j \in Jitter : LoginAttempt(r, j)
    \/ Return

\* a client that does not retry: the credentials are settled before the loop
InitCredentials ==
    /\ token = None
    /\ headers = ("Accept" :> "application/json")
    /\ auth_max_retries = 1
    /\ max_retries = 1
    /\ own_session = FALSE
    /\ persist_callback = FALSE
    /\ mailing_ids = <<>>
    /\ campaign_ids = <<>>
    /\ threads = NoThreads
    /\ uuid_next = 1
    /\ pc = "idle"
    /\ call = NoCall
    /\ log = <<>>
    /\ result = NoResult
    /\ used_keys = {}

SpecCredentials == InitCredentials /\ [][NextCredentials]_vars

\* the mailing client built on the auth client's session or on one of its own
InitSession ==
    /\ token = None
    /\ headers = ("Accept" :> "application/json")
    /\ auth_max_retries = 1
    /\ max_retries = 1
    /\ own_session \in BOOLEAN
    /\ persist_callback = FALSE
    /\ mailing_ids = <<>>
    /\ campaign_ids = <<>>
    /\ threads = NoThreads
    /\ uuid_next = 1
    /\ pc = "idle"
    /\ call = NoCall
    /\ log = <<>>
    /\ result = NoResult
    /\ used_keys = {}

SpecSession == InitSession /\ [][Next]_vars

\* the mailing client alone; every request is answered or times out
MailingStep == \E r \in MailingResponses(call.op) : RequestAttempt(r, "returns")
NextRequests ==
    \/ \E op \in DOMAIN Operations : \E args \in ArgsOf(op) : MailingStart(op, args)
    \/ MailingStep
    \/ Return

\* the auth client is never called here: one value of its retry budget is enough
InitRequests ==
    /\ token = None
    /\ headers = ("Accept" :> "application/json")
    /\ auth_max_retries = 1
    /\ max_retries \in 1..MaxRetries
    /\ own_session = FALSE
    /\ persist_callback = FALSE
    /\ mailing_ids = <<>>
    /\ campaign_ids = <<>>
    /\ threads = NoThreads
    /\ uuid_next = 1
    /\ pc = "idle"
    /\ call = NoCall
    /\ log = <<>>
    /\ result = NoResult
    /\ used_keys = {}
SpecRequests == InitRequests /\ [][NextRequests]_vars /\ WF_vars(MailingStep)

(* two threads calling login and logout on one ThreeCAuthClient; the client
   has no lock, so every statement of one call may run between two statements
   of the other *)
LoginWrites_header_first == <<"header", "token">>
\* the assignments of a successful _handle_login_response, in program order
LoginWrites == <<"token", "header">>
LogoutWrites_token_only == <<"token">>
\* the assignments of a logout answered 200, 401 or 403, in program order
LogoutWrites == <<"token", "header">>
Busy(t) == threads.of[t].pc # "idle"
\* the thread is back from its call; op keeps the operation it called last
Back(t) == [IdleThread EXCEPT !.calls = threads.of[t].calls, !.op = threads.of[t].op]

\* a thread enters login (with complete credentials) or logout
ThreadStart(t, op) ==
    /\ pc = "idle"
    /\ ~Busy(t)
    /\ threads.of[t].calls < MaxThreadCalls
    /\ LET began == [IdleThread EXCEPT !.op = op, !.calls = threads.of[t].calls + 1,
                                       !.pc = IF op = "logout" /\ ~TokenSet(token)
                                              THEN "idle" ELSE "request"]
       IN threads' = [of |-> [threads.of EXCEPT ![t] = began],
                      overlapped |-> threads.overlapped \/ \E u \in Threads \ {t} : Busy(u)]
    /\ UNCHANGED <<token, headers, auth_max_retries, max_retries, own_session, persist_callback,
                   mailing_ids, campaign_ids, uuid_next, pc, call, log, result, used_keys>>

\* the request of the thread's call is answered
ThreadAnswer(t, response) ==
    /\ threads.of[t].pc = "request"
    /\ LET th == threads.of[t]
           next ==
             IF th.op = "login"
             THEN IF LoginTransient(response)
                  THEN IF LoginRange(th.attempt, auth_max_retries)
                       THEN [th EXCEPT !.attempt = @ + 1]
                       ELSE Back(t)
                  ELSE LET out == _handle_login_response(response) IN
                       IF out.result.kind = "ok"
                       THEN [th EXCEPT !.pc = "write", !.value = out.token, !.todo = LoginWrites]
                       ELSE Back(t)
             ELSE IF logout_clears(response)
                  THEN [th EXCEPT !.pc = "write", !.value = None, !.todo = LogoutWrites]
                  ELSE Back(t)
       IN threads' = [threads EXCEPT !.of[t] = next]
    /\ UNCHANGED <<token, headers, auth_max_retries, max_retries, own_session, persist_callback,
                   mailing_ids, campaign_ids, uuid_next, pc, call, log, result, used_keys>>

\* the thread runs its next assignment
ThreadWrite(t) ==
    /\ threads.of[t].pc = "write"
    /\ LET th == threads.of[t]
           w == Head(th.todo)
       IN /\ token' = IF w = "token" THEN th.value ELSE token
          /\ headers' = IF w # "header" THEN headers
                        ELSE IF th.value = None THEN PopAuthorization(headers)
                        ELSE SetAuthorization(headers, th.value)
          /\ threads' = [threads EXCEPT !.of[t] = IF Tail(th.todo) = <<>> THEN Back(t)
                                                  ELSE [th EXCEPT !.todo = Tail(@)]]
    /\ UNCHANGED <<auth_max_retries, max_retries, own_session, persist_callback,
                   mailing_ids, campaign_ids, uuid_next, pc, call, log, result, used_keys>>

ThreadResponses(t) ==
    IF threads.of[t].op = "login" THEN LoginResponses ELSE PlainResponses
NextThreads ==
    \/ \E t \in Threads, op \in {"login", "logout"} : ThreadStart(t, op)
    \/ \E t \in Threads : \E r \in ThreadResponses(t) : ThreadAnswer(t, r)
    \/ \E t \in Threads : ThreadWrite(t)

SpecThreads == InitCredentials /\ [][NextThreads]_vars

\* one mailing client that records ids, with or without a persistence callback
InitMailing ==
    /\ token = None
    /\ headers = ("Accept" :> "application/json")
    /\ auth_max_retries = 1
    /\ max_retries = 1
    /\ own_session = FALSE
    /\ persist_callback \in BOOLEAN
    /\ mailing_ids = <<>>
    /\ campaign_ids = <<>>
    /\ threads = NoThreads
    /\ uuid_next = 1
    /\ pc = "idle"
    /\ call = NoCall
    /\ log = <<>>
    /\ result = NoResult
    /\ used_keys = {}
NextMailing ==
    \/ \E op \in DOMAIN Operations : \E args \in ArgsOf(op) : MailingStart(op, args)
    \/ \E r \in RecordingResponses(call.op), cb \in CallbackOutcomes : RequestAttempt(r, cb)
    \/ Return

SpecMailing == InitMailing /\ [][NextMailing]_vars

TypeOK ==
    /\ pc \in {"idle", "login", "request", "done"}
    /\ auth_max_retries \in 1..MaxRetries
(* ------------------------------------------------------------------ *)
(* Properties                                                           *)
(* ------------------------------------------------------------------ *)
MailingOps == DOMAIN Operations
Last == log[Len(log)]
\* a logged request that ended in an exception or an HTTP 5xx
Failed(e) == e.exc # "none" \/ e.status >= 500
\* a logged request answered 200 with a token somewhere _extract_token looks
TokenIn(e) ==
    IF e.exc = "none" /\ e.status = 200 /\ TokenSet(_extract_token(e.body))
    THEN _extract_token(e.body) ELSE None
LoginReturns == pc = "login" /\ pc' = "done" /\ result'.kind = "ok"

\* C1: right after a login that returns token T, is_autenticado holds and
\* auth_headers() is exactly {Authorization: Bearer T}; on a client that never
\* logged in successfully and right after a logout that returns normally,
\* is_autenticado is false and auth_headers() raises Unauthorized.
C1_AuthState ==
    /\ ~is_autenticado /\ auth_headers.kind = "Unauthorized"
    /\ [][(~is_autenticado /\ ~LoginReturns)
            => (~is_autenticado' /\ auth_headers'.kind = "Unauthorized")]_vars
    /\ []((pc = "done" /\ call.op = "login" /\ result.kind = "ok")
            => /\ is_autenticado
               /\ auth_headers = Returned(PyDict("Authorization" :> PyStr("Bearer " \o result.value.v))))
    /\ []((pc = "done" /\ call.op = "logout" /\ result.kind = "ok")
            => (~is_autenticado /\ auth_headers.kind = "Unauthorized"))
C1_Witness ==
    /\ pc = "done" /\ call.op = "logout" /\ result.kind = "ok"
    /\ Len(log) = 1 /\ ~is_autenticado

\* C2: with no token held, every operation that needs authentication
\* (verificar_sessao, logout, auth_headers and the six mailing operations)
\* raises Unauthorized at once, without any HTTP request.
AuthenticatedOps == {"verificar_sessao", "logout", "auth_headers"} \cup MailingOps
C2_UnauthenticatedRaises ==
    [][(pc = "idle" /\ ~TokenSet(token) /\ call'.op \in AuthenticatedOps)
         => (pc' = "done" /\ result'.kind = "Unauthorized" /\ log' = <<>>)]_vars

C4_LoginExhausted ==
    (call.op = "login") =>
        /\ Len(log) <= auth_max_retries
        /\ \A i \in 1..Len(log) : log[i].method = "POST" /\ log[i].attempt = i
        /\ (Len(log) >= auth_max_retries /\ \A i \in 1..auth_max_retries : Failed(log[i]))
              => /\ pc = "done"
                 /\ result.kind = "ApiUnavailable"
                 /\ Len(log) = auth_max_retries
C4_Witness ==
    /\ pc = "done" /\ call.op = "login" /\ result.kind = "ApiUnavailable"
    /\ auth_max_retries >= 2 /\ Len(log) = auth_max_retries
    /\ log[1].exc = "Timeout" /\ log[2].status >= 500
\* C5: when every attempt on every candidate path of a mailing operation
\* ends in a timeout, a network exception or a 5xx, the operation raises
\* ApiUnavailable.
C5_TransientIsUnavailable ==
    (pc = "done" /\ call.op \in MailingOps /\ Len(log) >= 1
        /\ \A i \in 1..Len(log) : Failed(log[i]))
      => result.kind = "ApiUnavailable"

NotFound(e) == e.exc = "none" /\ e.status = 404
\* a logged answer that is neither 404 nor 5xx
Definitive(e) == e.exc = "none" /\ e.status # 404 /\ e.status < 500
\* C6: after a 404 the candidate gets no further request and the next
\* candidate in registry order is tried, starting its own budget of
\* max_retries attempts at attempt 1; the first answer that is neither 404
\* nor 5xx ends the call and decides its result.
C6_NotFoundFallback ==
    (call.op \in MailingOps) =>
        /\ \A i \in 1..Len(log) : NotFound(log[i]) =>
              /\ \A j \in (i + 1)..Len(log) : log[j].path > log[i].path
              /\ i < Len(log) => (log[i + 1].path = log[i].path + 1 /\ log[i + 1].attempt = 1)
              /\ (i = Len(log) /\ log[i].path < Len(call.paths))
                    => (pc = "request" /\ call.path = log[i].path + 1 /\ call.attempt = 1)
        /\ \A i \in 1..Len(log) : (Failed(log[i]) /\ log[i].attempt < max_retries) =>
              /\ i < Len(log) => (log[i + 1].path = log[i].path
                                    /\ log[i + 1].attempt = log[i].attempt + 1)
              /\ i = Len(log) => (pc = "request" /\ call.path = log[i].path)
        /\ \A i \in 1..Len(log) : Definitive(log[i]) =>
              /\ i = Len(log) /\ pc = "done"
              /\ result = OperationResult(call.op,
                              _handle_response(Answer(log[i].status, log[i].body), call.key),
                              call.args)
C6_Witness ==
    /\ pc = "done" /\ call.op \in MailingOps /\ max_retries >= 2 /\ Len(log) = 4
    /\ Failed(log[1]) /\ NotFound(log[2]) /\ log[2].path = 1
    /\ Failed(log[3]) /\ log[3].path = 2 /\ log[3].attempt = 1
    /\ Definitive(log[4]) /\ log[4].path = 2 /\ log[4].attempt = 2

\* C7: when every candidate path of a mailing operation answers 404, the
\* operation raises CampaignNotFound naming the operation key, after one
\* request per candidate.
C7_AllNotFound ==
    (pc = "done" /\ call.op \in MailingOps /\ Len(log) >= 1
        /\ \A i \in 1..Len(log) : NotFound(log[i]))
      => /\ result = Raise("CampaignNotFound", call.key)
         /\ Len(log) = Len(call.paths)
         /\ \A i \in 1..Len(log) : log[i].path = i
C7_Witness ==
    /\ pc = "done" /\ call.op = "criar_mailing_container" /\ Len(log) = 2
    /\ NotFound(log[1]) /\ NotFound(log[2])
    /\ result.kind = "CampaignNotFound"

\* the error each client raises for a status that is not retried
NotRetried == {400, 401, 403, 409, 422, 429}
LoginErrorOf(status) ==
    CASE status \in {400, 422} -> "InputInvalid"
      [] status = 401 -> "InvalidCredentials"
      [] status = 429 -> "RateLimitExceeded"
      [] OTHER -> "ThreeCAuthError"
MailingErrorOf(op, status) ==
    CASE status \in {400, 422} -> "InputInvalid"
      [] status \in {401, 403} -> "Unauthorized"
      [] status = 409 -> IF op = "criar_mailing_container" THEN "CreateMailingFailed"
                         ELSE "UploadFailed"
      [] status = 429 -> "RateLimitExceeded"
\* C8: a 400, 401, 403, 409, 422 or 429 answer is never retried: in login and
\* in every mailing operation it is the last request of the call, which
\* raises the error mapped to the status.
C8_ClientErrorsNotRetried ==
    (call.op \in MailingOps \cup {"login"}) =>
        \A i \in 1..Len(log) : (log[i].exc = "none" /\ log[i].status \in NotRetried) =>
            /\ i = Len(log)
            /\ pc = "done"
            /\ result.kind = IF call.op = "login" THEN LoginErrorOf(log[i].status)
                             ELSE MailingErrorOf(call.op, log[i].status)
C8_Witness ==
    /\ pc = "done" /\ call.op \in MailingOps /\ Len(log) = 2
    /\ Failed(log[1]) /\ log[2].status = 429 /\ log[2].attempt = 2
    /\ result.kind = "RateLimitExceeded"

\* C9: all requests of one call of a write operation (POST or PUT), over all
\* retries and all candidate paths, carry one Idempotency-Key value, and
\* that value differs from the values of other calls.
C9_OneKeyPerCall ==
    (call.op \in WriteOps) =>
        /\ \A i, j \in 1..Len(log) : log[i].idem = log[j].idem
        /\ \A i \in 1..Len(log) : log[i].idem # NoKey /\ log[i].idem \notin used_keys

\* C10: after checkSession, logout or a mailing operation received a 401,
\* the token is cleared: is_autenticado is false and auth_headers() raises
\* Unauthorized.
C10_ExpiredClearsToken ==
    (pc = "done" /\ call.op \in AuthenticatedOps /\ Len(log) >= 1
        /\ Last.exc = "none" /\ Last.status = 401)
      => (~is_autenticado /\ auth_headers.kind = "Unauthorized")
\* the kind of error the auth client raises for a status below 500 it does
\* not know, and the outcomes of logout and verificar_sessao by status
HeaderSet == "Authorization" \in DOMAIN headers
LogoutKindOf(status) ==
    CASE status = 200 -> "ok"
      [] status \in {401, 403} -> "TokenExpired"
      [] status = 429 -> "RateLimitExceeded"
      [] status >= 500 -> "ApiUnavailable"
      [] OTHER -> "ThreeCAuthError"
\* C11: an authenticated logout issues one GET; 200 returns and 401/403
\* raises TokenExpired, both with token and Authorization header removed;
\* 429 raises RateLimitExceeded, >=500 ApiUnavailable, any other status the
\* generic error, all three with token and header untouched. The token is
\* cleared exactly when the status is 200, 401 or 403.
C11_LogoutByStatus ==
    [][(pc = "idle" /\ TokenSet(token) /\ call'.op = "logout") =>
        /\ pc' = "done" /\ Len(log') = 1 /\ log'[1].method = "GET"
        /\ log'[1].exc = "none" =>
              /\ result'.kind = LogoutKindOf(log'[1].status)
              /\ IF log'[1].status \in {200, 401, 403}
                 THEN token' = None /\ ~HeaderSet'
                 ELSE token' = token /\ headers' = headers /\ HeaderSet'
        /\ (token' = None) <=> (log'[1].exc = "none" /\ log'[1].status \in {200, 401, 403})
      ]_vars
C11_Witness ==
    /\ pc = "done" /\ call.op = "logout" /\ Len(log) = 1 /\ log[1].status = 403
    /\ result.kind = "TokenExpired" /\ token = None /\ ~HeaderSet

\* C12: a login that raises an error leaves the token and the Authorization
\* header as they were before the call; a 401 on an unauthenticated client
\* leaves is_autenticado false.
C12_FailedLoginKeepsToken ==
    [][(call'.op = "login" /\ ~(pc' = "done" /\ result'.kind = "ok"))
         => (token' = token /\ headers' = headers)]_vars
C12_Witness ==
    /\ pc = "done" /\ call.op = "login" /\ Len(log) >= 1 /\ Last.status = 401
    /\ result.kind = "InvalidCredentials" /\ token = "abc"
    /\ headers["Authorization"] = "Bearer abc"

LoginKindOf(status) ==
    CASE status \in {400, 422} -> "InputInvalid"
      [] status = 401 -> "InvalidCredentials"
      [] status = 429 -> "RateLimitExceeded"
      [] status >= 500 -> "ApiUnavailable"
      [] OTHER -> "ThreeCAuthError"
\* C13: the status of the last login response decides the error: 400/422
\* InputInvalid, 401 InvalidCredentials, 429 RateLimitExceeded, >=500
\* ApiUnavailable, any other status outside 2xx the generic auth error.
C13_LoginStatusMapping ==
    (pc = "done" /\ call.op = "login" /\ Len(log) >= 1 /\ Last.exc = "none"
        /\ ~(Last.status \in 200..299))
      => result.kind = LoginKindOf(Last.status)
C13_Witness ==
    /\ pc = "done" /\ call.op = "login" /\ Len(log) >= 1 /\ Last.status = 403
    /\ result.kind = "ThreeCAuthError"

\* C14: every login response with a 2xx status and a token in its body is a
\* success: the token is stored, the bearer header set and the token returned.
C14_AnySuccessStatus ==
    (pc = "done" /\ call.op = "login" /\ Len(log) >= 1 /\ Last.exc = "none"
        /\ Last.status \in 200..299 /\ TokenSet(_extract_token(Last.body)))
      => /\ result = Returned(PyStr(_extract_token(Last.body)))
         /\ token = _extract_token(Last.body)
         /\ HeaderSet /\ headers["Authorization"] = Bearer(token)

SessionKindOf(status) ==
    CASE status = 200 -> "ok"
      [] status = 401 -> "TokenExpired"
      [] status = 403 -> "Unauthorized"
      [] status = 429 -> "RateLimitExceeded"
      [] status >= 500 -> "ApiUnavailable"
      [] OTHER -> "ThreeCAuthError"
\* C17: an authenticated verificar_sessao issues exactly one GET (no retry)
\* and maps the status: 200 returns the body unchanged, 401 TokenExpired,
\* 403 Unauthorized, 429 RateLimitExceeded, >=500 ApiUnavailable, any other
\* status the generic error.
C17_CheckSession ==
    [][(pc = "idle" /\ TokenSet(token) /\ call'.op = "verificar_sessao") =>
        /\ pc' = "done" /\ Len(log') = 1 /\ log'[1].method = "GET"
        /\ log'[1].exc = "none" =>
              /\ result'.kind = SessionKindOf(log'[1].status)
              /\ log'[1].status = 200 => result'.value = PyDict(log'[1].body)
      ]_vars
C17_Witness ==
    /\ pc = "done" /\ call.op = "verificar_sessao" /\ Len(log) = 1
    /\ log[1].status = 200 /\ log[1].body # EmptyDict
    /\ result = Returned(PyDict(log[1].body))

\* C18: a call whose failure is a timeout or a network exception raises
\* ApiUnavailable, in login, verificar_sessao, logout and every mailing
\* operation; no transport exception reaches the caller.
C18_TransportErrorsTyped ==
    (pc = "done") =>
        /\ result.kind \notin {"Timeout", "RequestException"}
        /\ (Len(log) >= 1 /\ Last.exc # "none") => result.kind = "ApiUnavailable"
\* the first string under api_token, then token, of one dict; None if neither
StringAt(d) ==
    IF Get(d, "api_token").t = "str" THEN d["api_token"].v
    ELSE IF Get(d, "token").t = "str" THEN d["token"].v
    ELSE None
\* the search described with two levels: the body, then its data object
TwoLevelToken(body) ==
    IF StringAt(body) # None THEN StringAt(body)
    ELSE IF Get(body, "data").t = "dict" THEN StringAt(body["data"].v)
    ELSE None
\* the dict reached from the body by following data d times, None if the
\* chain of dicts ends or a token was found before
MaxDepth == 3
RECURSIVE DataLevel(_, _)
DataLevel(body, d) ==
    IF d = 0 THEN PyDict(body)
    ELSE LET up == DataLevel(body, d - 1) IN
         IF up.t = "dict" /\ StringAt(up.v) = None /\ Get(up.v, "data").t = "dict"
         THEN up.v["data"] ELSE PyNone
AnyDepthToken(body) ==
    LET hits == { d \in 0..MaxDepth :
                    DataLevel(body, d).t = "dict" /\ StringAt(DataLevel(body, d).v) # None }
    IN  IF hits = {} THEN None
        ELSE StringAt(DataLevel(body, CHOOSE d \in hits : \A e \in hits : d <= e).v)
LoginAnswered200 ==
    /\ pc = "login" /\ pc' = "done" /\ Len(log') >= 1
    /\ log'[Len(log')].exc = "none" /\ log'[Len(log')].status = 200
Resolved(arg, env, k) ==
    IF arg.t = "none" \/ arg = PyStr("") THEN EnvGet(env, k) ELSE arg
ResolvedCompanyId(arg, env) ==
    IF arg.t = "none" THEN EnvGet(env, "THREEC_COMPANY_ID") ELSE arg
Absent(v) == v.t = "none" \/ v = PyStr("")
Unparsable(v) == v.t = "str" /\ v.v \notin DOMAIN DigitStrings
Incomplete(a) ==
    \/ Absent(Resolved(a.user, a.env, "THREEC_USER"))
    \/ Absent(Resolved(a.password, a.env, "THREEC_PASSWORD"))
    \/ Absent(Resolved(a.company_domain, a.env, "THREEC_COMPANY_DOMAIN"))
    \/ Absent(ResolvedCompanyId(a.company_id, a.env))
    \/ Unparsable(ResolvedCompanyId(a.company_id, a.env))
\* C16: a login whose credentials, taken from the arguments with the
\* environment as fallback, miss one of user, password, company id, company
\* domain, or whose company id is not an integer, raises InputInvalid and
\* issues no HTTP request.
C16_IncompleteCredentials ==
    (call.op = "login" /\ Incomplete(call.args))
      => (pc = "done" /\ result.kind = "InputInvalid" /\ log = <<>>)
C16_Witness ==
    /\ pc = "done" /\ call.op = "login" /\ result.kind = "InputInvalid" /\ log = <<>>
    /\ call.args.user = PyNone /\ "THREEC_USER" \in DOMAIN call.args.env
    /\ call.args.company_id = PyNone /\ Get(call.args.env, "THREEC_COMPANY_ID") = PyStr("x")
    /\ call.args.password = PyStr("v") /\ call.args.company_domain = PyStr("v")
\* C19: every request of a mailing operation carries Authorization: Bearer T
\* with T the auth client's token at that moment, however the mailing client
\* was built; after logout and a new login the next call uses the new token.
C19_BearerOnEveryRequest ==
    (call.op \in MailingOps /\ TokenSet(token))
      => \A i \in 1..Len(log) : log[i].auth = Bearer(token)

RECURSIVE Doubling(_)
Doubling(k) == IF k <= 1 THEN 1 ELSE 2 * Doubling(k - 1)
RetryBudget == IF call.op = "login" THEN auth_max_retries ELSE max_retries
FirstDefinitive ==
    /\ pc = "done" /\ call.op \in MailingOps /\ Len(log) >= 1 /\ Definitive(Last)
    /\ \A i \in 1..(Len(log) - 1) : Failed(log[i]) \/ NotFound(log[i])
SendOps == {"enviar_mailing_json", "enviar_mailing_array", "enviar_mailing_csv"}
SharedErrorOf(status) ==
    CASE status \in {400, 422} -> "InputInvalid"
      [] status \in {401, 403} -> "Unauthorized"
      [] status = 409 -> "UploadFailed"
      [] status = 429 -> "RateLimitExceeded"
      [] OTHER -> "ThreeCMailingError"
\* C21 as written: the first answer of a mailing operation that is neither
\* 404 nor 5xx decides the outcome by its status: 200/201 returns the decoded
\* body, 400/422 InputInvalid, 401/403 Unauthorized, 409 UploadFailed, 429
\* RateLimitExceeded, any other status the generic mailing error.
C21_SharedMapping ==
    FirstDefinitive =>
        IF Last.status \in {200, 201}
        THEN call.op \in SendOps => result = Returned(PyDict(Last.body))
        ELSE result.kind = SharedErrorOf(Last.status)
\* C21 amended: as above, except that criar_mailing_container raises
\* CreateMailingFailed for a 409, and that only the three send operations
\* return the decoded body of a 200/201 as it is.
C21_SharedMappingPerOperation ==
    FirstDefinitive =>
        IF Last.status \in {200, 201}
        THEN call.op \in SendOps => result = Returned(PyDict(Last.body))
        ELSE result.kind = IF call.op = "criar_mailing_container" /\ Last.status = 409
                           THEN "CreateMailingFailed"
                           ELSE SharedErrorOf(Last.status)
C21_Witness ==
    /\ FirstDefinitive /\ call.op = "listar_campanhas" /\ Len(log) = 2
    /\ NotFound(log[1]) /\ Last.status = 403 /\ result.kind = "Unauthorized"

\* C22: a 409 answer to criar_mailing_container raises CreateMailingFailed,
\* never UploadFailed; a 409 answer to enviar_mailing_json,
\* enviar_mailing_array or enviar_mailing_csv raises UploadFailed.
C22_ConflictRemapped ==
    (pc = "done" /\ call.op \in MailingOps /\ Len(log) >= 1
        /\ Last.exc = "none" /\ Last.status = 409)
      => /\ call.op = "criar_mailing_container" => result.kind = "CreateMailingFailed"
         /\ call.op \in SendOps => result.kind = "UploadFailed"
C22_Witness ==
    /\ pc = "done" /\ call.op = "criar_mailing_container" /\ Len(log) >= 1
    /\ Last.status = 409 /\ result.kind = "CreateMailingFailed"

\* C26: enviar_mailing_json with a contact, at any position, of more than 20
\* phones raises, and enviar_mailing_csv with a path that does not exist
\* raises UploadFailed, both without any HTTP request.
C26_LocalValidationFirst ==
    /\ (call.op = "enviar_mailing_json" /\ \E i \in DOMAIN call.args.phones : call.args.phones[i] >= 21)
          => (pc = "done" /\ result.kind \notin {"ok", "none"} /\ log = <<>>)
    /\ (call.op = "enviar_mailing_csv" /\ ~call.args.exists)
          => (pc = "done" /\ result.kind = "UploadFailed" /\ log = <<>>)
C26_Witness ==
    /\ pc = "done" /\ call.op = "enviar_mailing_json" /\ call.args.phones = <<1, 21>>
    /\ result.kind = "ValueError" /\ log = <<>>

\* C27: ajustar_peso_mailing returns normally when the success answer has
\* success = true or no success field, raises WeightUpdateFailed when it has
\* success = false, and raises CampaignNotFound when every candidate
\* answered 404.
C27_WeightUpdate ==
    (pc = "done" /\ call.op = "ajustar_peso_mailing" /\ Len(log) >= 1) =>
        /\ (Last.exc = "none" /\ Last.status \in {200, 201}) =>
              /\ ("success" \notin DOMAIN Last.body \/ Last.body["success"] = PyBool(TRUE))
                    => result = Returned(PyNone)
              /\ ("success" \in DOMAIN Last.body /\ Last.body["success"] = PyBool(FALSE))
                    => result.kind = "WeightUpdateFailed"
        /\ (\A i \in 1..Len(log) : NotFound(log[i])) => result.kind = "CampaignNotFound"
C27_Witness ==
    /\ pc = "done" /\ call.op = "ajustar_peso_mailing" /\ Len(log) >= 1
    /\ Last.status = 200 /\ Last.body = EmptyDict /\ result = Returned(PyNone)

RequestsTo(p) == { i \in 1..Len(log) : log[i].path = p }
\* C28: a candidate whose max_retries attempts all failed (timeout, network
\* exception, 5xx) is left for the next candidate, which starts at attempt 1;
\* no candidate gets more than max_retries requests, and every call ends
\* after at most (number of candidates) x max_retries requests.
C28_BoundedRequests ==
    /\ [](call.op \in MailingOps =>
            /\ Len(log) <= Len(call.paths) * max_retries
            /\ \A p \in 1..Len(call.paths) : Cardinality(RequestsTo(p)) <= max_retries
            /\ \A i \in 1..Len(log) :
                 (Failed(log[i]) /\ log[i].attempt = max_retries /\ log[i].path < Len(call.paths))
                    => IF i < Len(log)
                       THEN log[i + 1].path = log[i].path + 1 /\ log[i + 1].attempt = 1
                       ELSE pc = "request" /\ call.path = log[i].path + 1 /\ call.attempt = 1)
    /\ (pc = "request") ~> (pc = "done")
C28_Witness ==
    /\ pc = "done" /\ call.op = "criar_mailing_container" /\ max_retries = 2
    /\ Len(log) = 4 /\ \A i \in 1..4 : Failed(log[i])
    /\ log[2].path = 1 /\ log[3].path = 2 /\ log[3].attempt = 1

\* C29: no mailing operation, whatever its outcome (a 401 or 403 answer
\* included), changes the auth client's token or the Authorization header of
\* the shared session; only login and logout change them.
C29_MailingKeepsToken ==
    [][/\ call'.op \in MailingOps => (token' = token /\ headers' = headers)
       /\ (token' # token \/ headers' # headers) => call'.op \in {"login", "logout"}
      ]_vars
C29_Witness ==
    /\ pc = "done" /\ call.op \in MailingOps /\ Len(log) >= 1 /\ Last.status = 401
    /\ result.kind = "Unauthorized" /\ token = "abc" /\ Authorization(headers) = "Bearer abc"
\* the value a body holds at data.<k> or at <k>, Missing when there is none
AtData(body, k) ==
    IF Get(body, "data").t = "dict" /\ k \in DOMAIN body["data"].v
    THEN body["data"].v[k] ELSE Missing
AtTop(body, k) == IF k \in DOMAIN body THEN body[k] ELSE Missing
\* an integer, or a string of the digits 0 to 9
IsId(x) == x.t = "int" \/ (x.t = "str" /\ x.v \in DOMAIN DigitStrings)
AsInteger(x) == IF x.t = "int" THEN x ELSE PyInt(DigitStrings[x.v])
FirstId(body) ==
    LET probes == << AtData(body, "mailing_id"), AtData(body, "id"),
                     AtTop(body, "mailing_id"), AtTop(body, "id") >>
        hits == { i \in 1..4 : IsId(probes[i]) }
    IN  IF hits = {} THEN Missing
        ELSE AsInteger(probes[CHOOSE i \in hits : \A j \in hits : i <= j])
CreationAnswered ==
    /\ pc = "done" /\ call.op = "criar_mailing_container" /\ Len(log) >= 1
    /\ Last.exc = "none" /\ Last.status \in {200, 201}
\* C23: the mailing id of a success body of criar_mailing_container is the
\* value at the first of data.mailing_id, data.id, mailing_id, id that holds
\* an integer or an all-digit string (as an integer); a path that is missing
\* or holds anything else is skipped; with no such path the call raises
\* CreateMailingFailed.
C23_FirstIdWins ==
    CreationAnswered =>
        IF FirstId(Last.body) = Missing
        THEN result.kind = "CreateMailingFailed"
        ELSE result = Returned(PyDict(("mailing_id" :> FirstId(Last.body))
                                      @@ ("campaign_id" :> call.args.campanha_id)))

\* C24: persist_callback is called exactly once per successful creation,
\* with the {mailing_id, campaign_id} result, and never for a creation that
\* fails; when it raises, the exception does not reach the caller, the new
\* id stays in mailing_ids and the call returns the result.
C24_CallbackOncePerCreation ==
    (pc = "done" /\ call.op = "criar_mailing_container") =>
        /\ (result.kind = "ok" /\ persist_callback)
              => (Len(call.callbacks) = 1 /\ call.callbacks[1].arg = result.value)
        /\ (result.kind # "ok" \/ ~persist_callback) => call.callbacks = <<>>
        /\ \A i \in 1..Len(call.callbacks) : call.callbacks[i].outcome = "raises" =>
              /\ result.kind = "ok"
              /\ result.value.v["campaign_id"] = call.args.campanha_id
              /\ mailing_ids # <<>>
              /\ mailing_ids[Len(mailing_ids)] = result.value.v["mailing_id"]
C24_Witness ==
    /\ pc = "done" /\ call.op = "criar_mailing_container" /\ persist_callback
    /\ Len(call.callbacks) = 1 /\ call.callbacks[1].outcome = "raises"
    /\ result.kind = "ok" /\ mailing_ids = <<PyInt(7)>>

\* the campaigns of a body, and the ones the description keeps
CampaignsOf(body) ==
    IF Truthy(Get(body, "data")) THEN body["data"].v
    ELSE IF Truthy(Get(body, "campaigns")) THEN body["campaigns"].v
    ELSE <<>>
NameContains(camp, filtro) ==
    /\ Get(camp.v, "name").t = "chars"
    /\ Contains(lower(filtro.v), lower(camp.v["name"].v))
Active(camp) == "active" \notin DOMAIN camp.v \/ camp.v["active"] = PyBool(TRUE)
Wanted(camp, filtro, somente_ativas) ==
    /\ filtro.t # "none" => NameContains(camp, filtro)
    /\ somente_ativas => Active(camp)
RECURSIVE Subsequence(_, _, _)
Subsequence(campanhas, filtro, somente_ativas) ==
    IF campanhas = <<>> THEN <<>>
    ELSE (IF Wanted(Head(campanhas), filtro, somente_ativas) THEN <<Head(campanhas)>> ELSE <<>>)
         \o Subsequence(Tail(campanhas), filtro, somente_ativas)
\* C25: listar_campanhas returns, in the order of the answer, exactly the
\* campaigns whose name contains the filter case-insensitively (when a
\* filter is given) and that are active (when somente_ativas is true), a
\* campaign without active flag counting as active; with somente_ativas
\* false inactive campaigns are kept.
C25_FilteredSubsequence ==
    (pc = "done" /\ call.op = "listar_campanhas" /\ Len(log) >= 1
        /\ Last.exc = "none" /\ Last.status \in {200, 201})
      => result = Returned(PyList(Subsequence(CampaignsOf(Last.body), call.args.filtro,
                                              call.args.somente_ativas)))
Quiescent == \A t \in Threads : ~Busy(t)
\* C30: token and header are written by separate statements under no lock:
\* when a login and a logout of two threads overlap, a run exists that ends,
\* both calls finished, with the token present and the Authorization header
\* absent; calls that never overlap always end with token and header agreeing.
C30_DisagreementNeedsOverlap ==
    (Quiescent /\ (TokenSet(token) # HeaderSet)) => threads.overlapped
C30_Witness ==
    /\ Quiescent /\ threads.overlapped
    /\ threads.of["t1"].op = "login" /\ threads.of["t2"].op = "logout"
    /\ threads.of["t1"].calls = 2 /\ threads.of["t2"].calls = 1
    /\ TokenSet(token) /\ ~HeaderSet
\* C31: in every state reached by sequential calls, the client holds at most
\* one token, the token is present exactly when the shared session has an
\* Authorization header, the header is then "Bearer " followed by the token,
\* and a token only ever arrives as the return value of a successful login.
C31_TokenIffHeader ==
    /\ [](/\ (token # None) <=> HeaderSet
          /\ HeaderSet => headers["Authorization"] = "Bearer " \o token)
    /\ [][(token' # token /\ token' # None)
            => (LoginReturns /\ result'.value = PyStr(token'))]_vars
C31_Witness ==
    /\ pc = "done" /\ call.op = "logout" /\ Len(log) = 1 /\ log[1].status = 429
    /\ log[1].auth = "Bearer xyz" /\ token = "xyz" /\ headers["Authorization"] = "Bearer xyz"

\* the requests of the call that failed with a timeout, a network exception
\* or a 5xx, and whether the call used up its candidates
TransientFailures == { i \in 1..Len(log) : Failed(log[i]) }
OutOfCandidates ==
    /\ pc = "done" /\ call.op \in MailingOps /\ Len(log) >= 1
    /\ Failed(Last) \/ NotFound(Last)
\* C32: when a mailing request runs out of candidates, the error follows the
\* most recent transient failure over all candidates (not reset between
\* them): ApiUnavailable after a timeout or network exception,
\* CampaignNotFound after a 5xx or when there was no transient failure; a
\* first candidate that only times out and a last one answering 404 give
\* ApiUnavailable.
C32_LastFailureDecides ==
    OutOfCandidates =>
        IF TransientFailures = {} THEN result.kind = "CampaignNotFound"
        ELSE LET m == CHOOSE i \in TransientFailures : \A j \in TransientFailures : j <= i IN
             result.kind = IF log[m].exc # "none" THEN "ApiUnavailable" ELSE "CampaignNotFound"
C32_Witness ==
    /\ OutOfCandidates /\ call.op = "enviar_mailing_csv" /\ max_retries = 2 /\ Len(log) = 3
    /\ log[1].exc = "Timeout" /\ log[2].exc = "Timeout" /\ log[2].path = 1
    /\ NotFound(log[3]) /\ log[3].path = 2 /\ result.kind = "ApiUnavailable"
\* the step in which a call of the operation returns normally
Succeeds(op) == pc = "request" /\ pc' = "done" /\ call.op = op /\ result'.kind = "ok"
IsInteger(camp) == "id" \in DOMAIN camp.v /\ camp.v["id"].t \in {"int", "bool"}
IntegerIdsOf(campanhas) ==
    LET withId == SelectSeq(campanhas, IsInteger)
    IN  [i \in 1..Len(withId) |-> withId[i].v["id"]]
\* C33: every step leaves mailing_ids as it was, followed by the returned
\* mailing id when the step is a criar_mailing_container that succeeds, and
\* campaign_ids as it was, followed by the integer ids of the returned
\* campaigns when the step is a listar_campanhas that succeeds; so both lists
\* are the concatenation of what the successful calls returned, in call
\* order, a call that raises leaves them unchanged and nothing is removed.
C33_AuditListsFollowCalls ==
    [][/\ mailing_ids' = mailing_ids \o
            (IF Succeeds("criar_mailing_container")
             THEN <<result'.value.v["mailing_id"]>> ELSE <<>>)
       /\ campaign_ids' = campaign_ids \o
            (IF Succeeds("listar_campanhas")
             THEN IntegerIdsOf(result'.value.v) ELSE <<>>)]_vars
C33_Witness ==
    /\ pc = "done" /\ call.op = "criar_mailing_container" /\ result.kind = "ok"
    /\ result.value.v["mailing_id"] = PyInt(12)
    /\ mailing_ids = <<PyInt(7), PyInt(12)>>
    /\ campaign_ids = <<PyInt(3)>>
====
